---- MODULE Spec2Model ----
(***************************************************************************)
(* The event-dispatch engine (p2app/engine/main.py) and the event bus      *)
(* (p2app/events/event_bus.py) as a state machine.                         *)
(*                                                                         *)
(* Text values are sequences of one-character strings, so that str.strip   *)
(* is computed and not assumed.  Python's None and SQL's NULL are the      *)
(* value None below, which is no text.                                     *)
(*                                                                         *)
(* The SQLite store is the environment of the engine.  A store file has a  *)
(* committed content (disk); a connection that executed a statement whose  *)
(* commit did not go through keeps an open transaction (pending), which is *)
(* what its own later statements read.                                     *)
(***************************************************************************)
EXTENDS Integers, Sequences, FiniteSets, TLC

\* Bound of the model: the number of requests dispatched in one run
\* (top-level and re-entrant dispatches together).
MaxReq == 3

None == <<"NULL">>

----------------------------------------------------------------------------
(* Python helpers used by the handlers *)

\* str.strip(): leading and trailing whitespace removed
RECURSIVE lstrip(_)
lstrip(s) == IF s # <<>> /\ Head(s) = " " THEN lstrip(Tail(s)) ELSE s

RECURSIVE rstrip(_)
rstrip(s) == IF s # <<>> /\ s[Len(s)] = " " THEN rstrip(SubSeq(s, 1, Len(s) - 1)) ELSE s

strip(s) == rstrip(lstrip(s))

\* bool(v) for a str-or-None value: None and '' are falsy
Truthy(v) == v # None /\ v # <<>>

\* (v or '')
OrEmpty(v) == IF Truthy(v) THEN v ELSE <<>>

\* (v if v else None)
OrNone(v) == IF Truthy(v) THEN v ELSE None

\* a faulty variant of Criterion: the value taken as sent, blanks included
Criterion_NoStrip(v) == OrEmpty(v)

\* the criterion a search handler works with: (event.x() or '').strip()
Criterion(v) == strip(OrEmpty(v))

----------------------------------------------------------------------------
(* The store files the environment offers *)

\* "catalog": an SQLite file holding the continent, country and region tables
\* "bare":    a well-formed SQLite file without these tables
\* "text":    a file that is not an SQLite database
\* "nodir":   a path that cannot be opened at all
Paths == {"catalog", "bare", "text", "nodir"}

\* sqlite3.connect(path) raises for a path that cannot be opened
Connectable(path) == path # "nodir"

\* PRAGMA schema_version reads the file header
IsDatabase(path) == path \in {"catalog", "bare"}

HasTables(path) == path = "catalog"

Continent(i, c, n) == [continent_id |-> i, continent_code |-> c, name |-> n]

Country(i, c, n, ci, w, k) ==
    [country_id |-> i, country_code |-> c, name |-> n, continent_id |-> ci,
     wikipedia_link |-> w, keywords |-> k]

Region(i, rc, lc, n, ci, co, w, k) ==
    [region_id |-> i, region_code |-> rc, local_code |-> lc, name |-> n,
     continent_id |-> ci, country_id |-> co, wikipedia_link |-> w, keywords |-> k]

\* The catalog file as the run finds it: each table is the sequence of its
\* rows in store iteration order.  The text columns that may be empty hold
\* NULL in some rows and the empty string in others.
InitialCatalog ==
    [continent |-> << Continent(1, <<"A">>, <<"x">>), Continent(2, <<"A">>, <<"y">>) >>,
     country   |-> << Country(1, <<"U">>, <<"u">>, 1, <<"w">>, None),
                      Country(3, <<"U">>, <<"u">>, 1, <<"w">>, <<>>) >>,
     region    |-> << Region(1, <<"R">>, <<"L">>, <<"r">>, 1, 1, <<"w">>, None) >>]

IdField(t) == CASE t = "continent" -> "continent_id"
                [] t = "country"   -> "country_id"
                [] t = "region"    -> "region_id"

HasId(rows, t, i) == \E k \in 1..Len(rows) : rows[k][IdField(t)] = i

RowOf(rows, t, i) == SelectSeq(rows, LAMBDA r : r[IdField(t)] = i)

----------------------------------------------------------------------------
(* Engine and store state, as the handlers see it:                          *)
(*   connection  Engine._connection (NoConnection is None)                  *)
(*   live        the sqlite3 connections opened and not closed              *)
(*   disk        the committed content of the catalog file                  *)
(*   txn         the content the engine's connection reads: disk, plus the  *)
(*               statements of its transaction that no commit has ended     *)

NoConnection == [id |-> 0, path |-> "none"]

\* the object sqlite3.connect returns: a connection no live one is equal to
NewConnection(live, path) ==
    [id |-> CHOOSE i \in 1..(Cardinality(live) + 1) :
                (\A c \in live : c.id # i)
                /\ (\A j \in 1..(i - 1) : \E c \in live : c.id = j),
     path |-> path]

\* what a handler returns: the state it leaves, the events it yields, and the
\* exception that leaves it ("none" when it ends normally)
Result(S, out, raised) == [S |-> S, out |-> out, raised |-> raised]

ErrorEvent(m) == [type |-> "ErrorEvent", message |-> m]

\* self._connection.close(); self._connection = None
\* (close raising leaves the handle as it was)
CloseConnection(S, fault) ==
    IF fault = "release"
    THEN Result(S, <<>>, "sqlite3.Error")
    ELSE Result([S EXCEPT !.connection = NoConnection,
                          !.live = S.live \ {S.connection},
                          !.txn = S.disk],
                <<>>, "none")

\* the two except clauses of _handle_open_database
OpenFailure(S, fault, reason) ==
    IF S.connection # NoConnection
    THEN LET c == CloseConnection(S, fault)
         IN  IF c.raised # "none" THEN c
             ELSE Result(c.S, <<[type |-> "DatabaseOpenFailedEvent", reason |-> reason]>>, "none")
    ELSE Result(S, <<[type |-> "DatabaseOpenFailedEvent", reason |-> reason]>>, "none")

\* gc: whether the runtime finalizes (and so closes) the connection object
\* that the assignment of line 72 leaves without a reference
_handle_open_database(event, fault, gc, S) ==
    IF ~Connectable(event.path) \/ fault \in {"attach", "attachOther"}
    THEN \* sqlite3.connect raised: self._connection is still the prior one
         OpenFailure(S, fault, IF fault = "attachOther" THEN "unexpected" ELSE "invalid")
    ELSE LET new  == NewConnection(S.live, event.path)
             kept == IF gc THEN S.live \ {S.connection} ELSE S.live
             S1   == [S EXCEPT !.connection = new,
                               !.live = kept \cup {new},
                               !.txn = S.disk]
         IN  IF IsDatabase(event.path) /\ fault # "query"
             THEN Result(S1, <<[type |-> "DatabaseOpenedEvent", path |-> event.path]>>, "none")
             ELSE OpenFailure(S1, fault, "invalid")

_handle_close_database(event, fault, S) ==
    IF S.connection # NoConnection
    THEN LET c == CloseConnection(S, fault)
         IN  IF c.raised # "none" THEN c
             ELSE Result(c.S, <<[type |-> "DatabaseClosedEvent"]>>, "none")
    ELSE Result(S, <<[type |-> "DatabaseClosedEvent"]>>, "none")

_handle_quit_application(event, S) ==
    Result(S, <<[type |-> "EndApplicationEvent"]>>, "none")

\* a faulty variant of _handle_unrecognized: the request is ignored
_handle_unrecognized_Silent(event, S) ==
    Result(S, <<>>, "none")

_handle_unrecognized(event, S) ==
    Result(S, <<ErrorEvent("unrecognized")>>, "none")

----------------------------------------------------------------------------
(* Search *)

\* cursor.execute raises: an injected store failure, or a table the
\* connected file does not have
QueryFails(S, fault) == fault = "query" \/ ~HasTables(S.connection.path)

\* a faulty variant of Matches: the criteria joined by OR
Matches_Any(row, crits) ==
    \E k \in 1..Len(crits) : crits[k][2] # <<>> /\ row[crits[k][1]] = crits[k][2]

\* WHERE TRUE [AND column = ?]...: crits is the sequence of <<column, value>>
\* pairs of the handler, one AND per value that is not empty
Matches(row, crits) ==
    \A k \in 1..Len(crits) : crits[k][2] # <<>> => row[crits[k][1]] = crits[k][2]

SearchResultEvent(t, row) == [type |-> "SearchResultEvent", table |-> t, record |-> row]

RECURSIVE YieldEach(_, _)
YieldEach(t, rows) ==
    IF rows = <<>> THEN <<>>
    ELSE <<SearchResultEvent(t, Head(rows))>> \o YieldEach(t, Tail(rows))

\* a faulty variant of Search: the criteria are validated before the
\* connection is looked at
Search_ValidateFirst(t, crits, fault, S) ==
    IF \A k \in 1..Len(crits) : crits[k][2] = <<>>
    THEN Result(S, <<ErrorEvent("no criteria")>>, "none")
    ELSE IF S.connection = NoConnection THEN Result(S, <<>>, "none")
    ELSE IF QueryFails(S, fault)
    THEN Result(S, <<ErrorEvent("unexpected")>>, "none")
    ELSE LET rows == SelectSeq(S.txn[t], LAMBDA r : Matches(r, crits))
         IN  IF rows = <<>>
             THEN Result(S, <<ErrorEvent("not found")>>, "none")
             ELSE Result(S, YieldEach(t, rows), "none")

\* the body the three search handlers share
Search(t, crits, fault, S) ==
    IF S.connection = NoConnection THEN Result(S, <<>>, "none")
    ELSE IF \A k \in 1..Len(crits) : crits[k][2] = <<>>
    THEN Result(S, <<ErrorEvent("no criteria")>>, "none")
    ELSE IF QueryFails(S, fault)
    THEN Result(S, <<ErrorEvent("unexpected")>>, "none")
    ELSE LET rows == SelectSeq(S.txn[t], LAMBDA r : Matches(r, crits))
         IN  IF rows = <<>>
             THEN Result(S, <<ErrorEvent("not found")>>, "none")
             ELSE Result(S, YieldEach(t, rows), "none")

_handle_search_continent(event, fault, S) ==
    Search("continent",
           << <<"continent_code", Criterion(event.continent_code)>>,
              <<"name", Criterion(event.name)>> >>,
           fault, S)

_handle_search_country(event, fault, S) ==
    Search("country",
           << <<"country_code", Criterion(event.country_code)>>,
              <<"name", Criterion(event.name)>> >>,
           fault, S)

_handle_search_region(event, fault, S) ==
    Search("region",
           << <<"region_code", Criterion(event.region_code)>>,
              <<"local_code", Criterion(event.local_code)>>,
              <<"name", Criterion(event.name)>> >>,
           fault, S)

----------------------------------------------------------------------------
(* Load *)

LoadedEvent(t, row) == [type |-> "LoadedEvent", table |-> t, record |-> row]

\* a faulty variant of Load: an id that no row has is reported as an error
Load_ErrorWhenMissing(t, i, fault, S) ==
    IF S.connection = NoConnection \/ QueryFails(S, fault)
       \/ RowOf(S.txn[t], t, i) = <<>>
    THEN Result(S, <<ErrorEvent("unexpected")>>, "none")
    ELSE Result(S, <<LoadedEvent(t, Head(RowOf(S.txn[t], t, i)))>>, "none")

\* the body the three load handlers share; with no connection
\* self._connection.cursor() raises AttributeError inside the try
Load(t, i, fault, S) ==
    IF S.connection = NoConnection \/ QueryFails(S, fault)
    THEN Result(S, <<ErrorEvent("unexpected")>>, "none")
    ELSE LET rows == RowOf(S.txn[t], t, i)
         IN  IF rows # <<>>
             THEN Result(S, <<LoadedEvent(t, Head(rows))>>, "none")
             ELSE Result(S, <<>>, "none")

_handle_load_continent(event, fault, S) == Load("continent", event.continent_id, fault, S)

_handle_load_country(event, fault, S) == Load("country", event.country_id, fault, S)

_handle_load_region(event, fault, S) == Load("region", event.region_id, fault, S)

----------------------------------------------------------------------------
(* Save *)

SavedEvent(t, rec) == [type |-> "SavedEvent", table |-> t, record |-> rec]

SaveFailedEvent(t) == [type |-> "SaveFailedEvent", table |-> t]

\* a faulty variant of Commit: a commit that fails drops the connection
Commit_Disconnects(t, rec, txn1, fault, S) ==
    CASE fault \in {"commit", "commitAbort"} ->
            Result([S EXCEPT !.connection = NoConnection,
                             !.live = S.live \ {S.connection},
                             !.txn = S.disk],
                   <<SaveFailedEvent(t)>>, "none")
      [] OTHER ->
            Result([S EXCEPT !.txn = txn1, !.disk = txn1], <<SavedEvent(t, rec)>>, "none")

\* self._connection.commit() and the yield after it.  A commit that fails
\* either leaves the transaction open ("commit": the statement stays in
\* txn) or is undone by the store ("commitAbort"); the handler does not
\* roll back.
Commit(t, rec, txn1, fault, S) ==
    CASE fault = "commit" ->
            Result([S EXCEPT !.txn = txn1], <<SaveFailedEvent(t)>>, "none")
      [] fault = "commitAbort" ->
            Result([S EXCEPT !.txn = S.disk], <<SaveFailedEvent(t)>>, "none")
      [] OTHER ->
            Result([S EXCEPT !.txn = txn1, !.disk = txn1], <<SavedEvent(t, rec)>>, "none")

\* cursor.execute raises in a save handler: no connection (AttributeError),
\* an injected store failure, or a table the connected file does not have
ExecuteFails(S, fault) ==
    S.connection = NoConnection \/ fault = "execute" \/ ~HasTables(S.connection.path)

\* a faulty variant of Insert: the request is confirmed and no row is stored
Insert_Unsaved(t, rec, row, fault, S) ==
    IF ExecuteFails(S, fault) \/ HasId(S.txn[t], t, row[IdField(t)])
    THEN Result(S, <<SaveFailedEvent(t)>>, "none")
    ELSE Commit(t, rec, S.txn, fault, S)

\* INSERT INTO t ... VALUES (row), then commit; the id is the primary key
Insert(t, rec, row, fault, S) ==
    IF ExecuteFails(S, fault) \/ HasId(S.txn[t], t, row[IdField(t)])
    THEN Result(S, <<SaveFailedEvent(t)>>, "none")
    ELSE Commit(t, rec, [S.txn EXCEPT ![t] = Append(@, row)], fault, S)

\* a faulty variant of Update: the WHERE clause is left out
Update_AllRows(t, rec, row, fault, S) ==
    IF ExecuteFails(S, fault)
    THEN Result(S, <<SaveFailedEvent(t)>>, "none")
    ELSE Commit(t, rec, [S.txn EXCEPT ![t] = [k \in 1..Len(@) |-> row]], fault, S)

\* UPDATE t SET ... WHERE id = ?, then commit
Update(t, rec, row, fault, S) ==
    IF ExecuteFails(S, fault)
    THEN Result(S, <<SaveFailedEvent(t)>>, "none")
    ELSE Commit(t, rec,
                [S.txn EXCEPT ![t] =
                    [k \in 1..Len(@) |->
                        IF @[k][IdField(t)] = row[IdField(t)] THEN row ELSE @[k]]],
                fault, S)

_handle_save_new_continent(event, fault, S) ==
    Insert("continent", event.record, event.record, fault, S)

_handle_save_continent(event, fault, S) ==
    Update("continent", event.record, event.record, fault, S)

_handle_save_new_country(event, fault, S) ==
    Insert("country", event.record,
           [event.record EXCEPT !.keywords = OrNone(@)], fault, S)

_handle_save_country(event, fault, S) ==
    Update("country", event.record,
           [event.record EXCEPT !.keywords = OrNone(@)], fault, S)

_handle_save_new_region(event, fault, S) ==
    Insert("region", event.record,
           [event.record EXCEPT !.keywords = OrNone(@)], fault, S)

_handle_save_region(event, fault, S) ==
    Update("region", event.record,
           [event.record EXCEPT !.wikipedia_link = OrNone(@), !.keywords = OrNone(@)],
           fault, S)

----------------------------------------------------------------------------
(* Engine.process_event: the dispatch table of Engine.__init__ *)

process_event(event, fault, gc, S) ==
    CASE event.type = "OpenDatabaseEvent"         -> _handle_open_database(event, fault, gc, S)
      [] event.type = "CloseDatabaseEvent"        -> _handle_close_database(event, fault, S)
      [] event.type = "QuitInitiatedEvent"        -> _handle_quit_application(event, S)
      [] event.type = "StartContinentSearchEvent" -> _handle_search_continent(event, fault, S)
      [] event.type = "LoadContinentEvent"        -> _handle_load_continent(event, fault, S)
      [] event.type = "SaveNewContinentEvent"     -> _handle_save_new_continent(event, fault, S)
      [] event.type = "SaveContinentEvent"        -> _handle_save_continent(event, fault, S)
      [] event.type = "StartCountrySearchEvent"   -> _handle_search_country(event, fault, S)
      [] event.type = "LoadCountryEvent"          -> _handle_load_country(event, fault, S)
      [] event.type = "SaveNewCountryEvent"       -> _handle_save_new_country(event, fault, S)
      [] event.type = "SaveCountryEvent"          -> _handle_save_country(event, fault, S)
      [] event.type = "StartRegionSearchEvent"    -> _handle_search_region(event, fault, S)
      [] event.type = "LoadRegionEvent"           -> _handle_load_region(event, fault, S)
      [] event.type = "SaveNewRegionEvent"        -> _handle_save_new_region(event, fault, S)
      [] event.type = "SaveRegionEvent"           -> _handle_save_region(event, fault, S)
      [] OTHER                                    -> _handle_unrecognized(event, S)

----------------------------------------------------------------------------
(* The requests the interface sends in this model *)

ContinentRecords == { Continent(1, <<"B">>, <<"x">>), Continent(3, <<"A">>, <<"x">>) }

CountryRecords ==
    { Country(1, <<"U">>, <<"u">>, 1, <<"v">>, None),
      Country(1, <<"U">>, <<"u">>, 1, <<>>, <<>>),
      Country(2, <<"U">>, <<"u">>, 1, <<>>, <<>>),
      Country(3, <<"U">>, <<"u">>, 1, <<>>, <<>>) }

RegionRecords ==
    { Region(1, <<"R">>, <<"L">>, <<"r">>, 1, 1, <<"v">>, None),
      Region(1, <<"R">>, <<"L">>, <<"r">>, 1, 1, <<>>, <<>>),
      Region(2, <<"R">>, <<"L">>, <<"r">>, 1, 1, <<>>, <<>>) }

SearchRequests ==
    { [type |-> "StartContinentSearchEvent", continent_code |-> c, name |-> n] :
        c \in {None, <<" ">>, <<" ", "A", " ">>}, n \in {None, <<>>, <<"y", " ">>, <<"z">>} }
    \cup
    { [type |-> "StartCountrySearchEvent", country_code |-> c, name |-> n] :
        c \in {None, <<"U">>}, n \in {<<" ">>, <<"u">>} }
    \cup
    { [type |-> "StartRegionSearchEvent", region_code |-> c, local_code |-> l, name |-> n] :
        c \in {None, <<"R">>}, l \in {<<>>, <<"X">>}, n \in {None, <<"r">>} }

LoadRequests ==
    { [type |-> "LoadContinentEvent", continent_id |-> i] : i \in {1, 3} }
    \cup { [type |-> "LoadCountryEvent", country_id |-> i] : i \in {1, 2} }
    \cup { [type |-> "LoadRegionEvent", region_id |-> i] : i \in {1, 2} }

UpdateTypes == {"SaveContinentEvent", "SaveCountryEvent", "SaveRegionEvent"}

SaveRequests ==
    { [type |-> ty, record |-> r] :
        ty \in {"SaveNewContinentEvent", "SaveContinentEvent"}, r \in ContinentRecords }
    \cup
    { [type |-> ty, record |-> r] :
        ty \in {"SaveNewCountryEvent", "SaveCountryEvent"}, r \in CountryRecords }
    \cup
    { [type |-> ty, record |-> r] :
        ty \in {"SaveNewRegionEvent", "SaveRegionEvent"}, r \in RegionRecords }

OpenRequests == { [type |-> "OpenDatabaseEvent", path |-> p] : p \in Paths }

Requests ==
    OpenRequests
    \cup { [type |-> "CloseDatabaseEvent"], [type |-> "QuitInitiatedEvent"],
           [type |-> "UnknownEvent"] }
    \cup SearchRequests \cup LoadRequests \cup SaveRequests

\* the store failures that can strike the handler of a request
FaultsOf(event) ==
    CASE event.type = "OpenDatabaseEvent"  -> {"none", "attach", "attachOther", "query", "release"}
      [] event.type = "CloseDatabaseEvent" -> {"none", "release"}
      [] event \in SearchRequests \cup LoadRequests -> {"none", "query"}
      [] event \in SaveRequests -> {"none", "execute", "commit", "commitAbort"}
      [] OTHER -> {"none"}

\* what the runtime may do with a connection object left without a
\* reference: only an Open request leaves one
GcOf(event) == IF event.type = "OpenDatabaseEvent" THEN BOOLEAN ELSE {FALSE}

\* the requests the interface sends from inside its handling of a response
ReentrantRequests ==
    { [type |-> "CloseDatabaseEvent"],
      [type |-> "OpenDatabaseEvent", path |-> "catalog"],
      [type |-> "LoadContinentEvent", continent_id |-> 1],
      [type |-> "SaveContinentEvent", record |-> Continent(1, <<"B">>, <<"x">>)] }

----------------------------------------------------------------------------
(* The event bus and the run *)

VARIABLES
    connection,   \* Engine._connection
    live,         \* sqlite3 connections opened and not closed
    disk,         \* committed content of the catalog file
    txn,          \* content the engine's connection reads
    busView,      \* EventBus._view
    busEngine,    \* EventBus._engine
    busDebug,     \* EventBus._is_debug_mode
    stack,        \* the initiate_event calls in progress, innermost last
    raised,       \* the exception that left the last initiate_event call
    raisedBy,     \* the type of the request that was being served when it left
    nreq          \* requests dispatched so far

vars ==
    <<connection, live, disk, txn, busView, busEngine, busDebug, stack, raised, raisedBy,
      nreq>>

EngineState == [connection |-> connection, live |-> live, disk |-> disk, txn |-> txn]

Init ==
    /\ connection = NoConnection
    /\ live = {}
    /\ disk = InitialCatalog
    /\ txn = InitialCatalog
    /\ busView = None
    /\ busEngine = None
    /\ busDebug = FALSE
    /\ stack = <<>>
    /\ raised = "none"
    /\ raisedBy = "none"
    /\ nreq = 0

register_view ==
    /\ busView' = <<"view">>
    /\ UNCHANGED <<connection, live, disk, txn, busEngine, busDebug, stack, raised, raisedBy, nreq>>

register_engine ==
    /\ busEngine' = <<"engine">>
    /\ UNCHANGED <<connection, live, disk, txn, busView, busDebug, stack, raised, raisedBy, nreq>>

\* the application switches debug mode from its own event loop, between
\* two requests
enable_debug_mode ==
    /\ stack = <<>>
    /\ busDebug' = TRUE
    /\ UNCHANGED <<connection, live, disk, txn, busView, busEngine, stack, raised, raisedBy, nreq>>

disable_debug_mode ==
    /\ stack = <<>>
    /\ busDebug' = FALSE
    /\ UNCHANGED <<connection, live, disk, txn, busView, busEngine, stack, raised, raisedBy, nreq>>

\* print(f'Sent by {who}: {event}') when debug mode is on: the lines printed
\* so far by an initiate_event call, with the line for event added
Printed(log, who, event) == IF busDebug THEN Append(log, <<who, event>>) ELSE log

\* one initiate_event call up to the first response of the engine: the
\* handler runs to its first yield, which is where all its work is done.
\* A frame of the stack is one call: its request, the responses of the
\* engine (out), how many of them the for loop has taken (idx), the events
\* handed to the view (got) and the lines printed (log).
Call(event, fault, gc, below) ==
    /\ nreq < MaxReq
    /\ nreq' = nreq + 1
    /\ UNCHANGED <<busView, busEngine, busDebug>>
    /\ IF busEngine = None
       THEN \* None has no process_event
            /\ raised' = "AttributeError"
            /\ raisedBy' = event.type
            /\ stack' = <<>>
            /\ UNCHANGED <<connection, live, disk, txn>>
       ELSE LET r == process_event(event, fault, gc, EngineState)
            IN  /\ connection' = r.S.connection
                /\ live' = r.S.live
                /\ disk' = r.S.disk
                /\ txn' = r.S.txn
                /\ raised' = r.raised
                /\ raisedBy' = IF r.raised # "none" THEN event.type ELSE "none"
                /\ stack' = IF r.raised # "none" THEN <<>>
                            ELSE Append(below,
                                        [event |-> event, fault |-> fault, out |-> r.out,
                                         idx |-> 0, pre |-> EngineState,
                                         got |-> <<>>,
                                         log |-> Printed(<<>>, "view", event)])

\* initiate_event called by the interface from its own event loop
Dispatch ==
    /\ stack = <<>>
    /\ \E event \in Requests : \E fault \in FaultsOf(event) : \E gc \in GcOf(event) :
           Call(event, fault, gc, stack)

Top == stack[Len(stack)]

\* a faulty variant of Deliver: in debug mode the response is printed and
\* not handed to the view
Deliver_PrintOnly ==
    /\ stack # <<>>
    /\ Top.idx < Len(Top.out)
    /\ IF busView = None
       THEN /\ raised' = "AttributeError"
            /\ raisedBy' = Top.event.type
            /\ stack' = <<>>
       ELSE /\ raised' = raised
            /\ raisedBy' = raisedBy
            /\ stack' = [stack EXCEPT
                            ![Len(stack)].idx = @ + 1,
                            ![Len(stack)].log = Printed(@, "engine", Top.out[Top.idx + 1]),
                            ![Len(stack)].got = IF busDebug THEN @
                                                ELSE Append(@, Top.out[Top.idx + 1])]
    /\ UNCHANGED <<connection, live, disk, txn, busView, busEngine, busDebug, nreq>>

\* the for loop of initiate_event takes the next response, prints it in
\* debug mode and hands it to the view
Deliver ==
    /\ stack # <<>>
    /\ Top.idx < Len(Top.out)
    /\ IF busView = None
       THEN \* None has no handle_event
            /\ raised' = "AttributeError"
            /\ raisedBy' = Top.event.type
            /\ stack' = <<>>
       ELSE /\ raised' = raised
            /\ raisedBy' = raisedBy
            /\ stack' = [stack EXCEPT
                            ![Len(stack)].idx = @ + 1,
                            ![Len(stack)].log = Printed(@, "engine", Top.out[Top.idx + 1]),
                            ![Len(stack)].got = Append(@, Top.out[Top.idx + 1])]
    /\ UNCHANGED <<connection, live, disk, txn, busView, busEngine, busDebug, nreq>>

\* a faulty variant of Return: initiate_event returns once a first response
\* has been handed over, whatever is left to deliver
Return_Early ==
    /\ stack # <<>>
    /\ Top.idx >= 1 \/ Top.idx = Len(Top.out)
    /\ stack' = SubSeq(stack, 1, Len(stack) - 1)
    /\ UNCHANGED <<connection, live, disk, txn, busView, busEngine, busDebug, raised, raisedBy, nreq>>

\* the generator is exhausted and initiate_event returns
Return ==
    /\ stack # <<>>
    /\ Top.idx = Len(Top.out)
    /\ stack' = SubSeq(stack, 1, Len(stack) - 1)
    /\ UNCHANGED <<connection, live, disk, txn, busView, busEngine, busDebug, raised, raisedBy, nreq>>

\* initiate_event called by the view from inside handle_event, while the
\* generator of the request below is suspended at its yield
Reenter ==
    /\ stack # <<>>
    /\ Top.idx >= 1
    /\ \E event \in ReentrantRequests : Call(event, "none", FALSE, stack)

Next ==
    \/ register_view
    \/ register_engine
    \/ enable_debug_mode
    \/ disable_debug_mode
    \/ Dispatch
    \/ Deliver
    \/ Return
    \/ Reenter

Spec == Init /\ [][Next]_vars

----------------------------------------------------------------------------
(* Vocabulary of the properties *)

\* the requests in flight, with what the engine answered to each
Frames == { stack[k] : k \in 1..Len(stack) }

\* the engine has just processed the request of frame f: the state is the
\* one its handler left
JustProcessed(f) == stack # <<>> /\ f = Top /\ f.idx = 0

TableOf(event) ==
    CASE event.type \in {"StartContinentSearchEvent", "LoadContinentEvent",
                         "SaveNewContinentEvent", "SaveContinentEvent"} -> "continent"
      [] event.type \in {"StartCountrySearchEvent", "LoadCountryEvent",
                         "SaveNewCountryEvent", "SaveCountryEvent"} -> "country"
      [] OTHER -> "region"

Count(out, ty) == Cardinality({ k \in 1..Len(out) : out[k].type = ty })

\* the keys of the dispatch table
HandledTypes ==
    {"OpenDatabaseEvent", "CloseDatabaseEvent", "QuitInitiatedEvent",
     "StartContinentSearchEvent", "LoadContinentEvent",
     "SaveNewContinentEvent", "SaveContinentEvent",
     "StartCountrySearchEvent", "LoadCountryEvent",
     "SaveNewCountryEvent", "SaveCountryEvent",
     "StartRegionSearchEvent", "LoadRegionEvent",
     "SaveNewRegionEvent", "SaveRegionEvent"}

----------------------------------------------------------------------------
\* C1: in every reachable state every live store connection is the engine's
\* current handle, so at most one connection is live.
C1_OneLiveConnection ==
    /\ live \subseteq {connection}
    /\ Cardinality(live) <= 1

\* C2: an update request processed with a connection open is confirmed by
\* Saved(record) only if the store then holds a row with the id of record.
C2_SavedOnlyForPersistedRow ==
    \A f \in Frames :
        (/\ JustProcessed(f)
         /\ f.event.type \in UpdateTypes
         /\ f.pre.connection # NoConnection
         /\ Count(f.out, "SavedEvent") > 0)
        => HasId(txn[TableOf(f.event)], TableOf(f.event),
                 f.event.record[IdField(TableOf(f.event))])

\* C3: Open on a path that is no well-formed catalog store (it cannot be
\* opened, is no store, or lacks the three tables) answers with exactly one
\* OpenFailed and no Opened, and leaves no live connection, whatever was
\* held before.
C3_OpenOfNonCatalogFails ==
    \A f \in Frames :
        (/\ JustProcessed(f)
         /\ f.event.type = "OpenDatabaseEvent"
         /\ f.event.path # "catalog")
        => /\ Len(f.out) = 1
           /\ f.out[1].type = "DatabaseOpenFailedEvent"
           /\ connection = NoConnection
           /\ live = {}

\* C4: a Load or Save request processed while the engine holds no
\* connection changes no state and is answered by no error or failure event.
C4_NoConnectionIsNoOp ==
    \A f \in Frames :
        (/\ JustProcessed(f)
         /\ f.event \in LoadRequests \cup SaveRequests
         /\ f.pre.connection = NoConnection)
        => /\ EngineState = f.pre
           /\ Count(f.out, "ErrorEvent") = 0
           /\ Count(f.out, "SaveFailedEvent") = 0

C6_NothingEscapes == raised # "sqlite3.Error"

\* C7: no request is processed and delivered on a bus that lacks its view
\* or its engine.
C7_MisconfigurationRejected ==
    stack # <<>> => (busView # None /\ busEngine # None)

\* the <<column, value as sent>> pairs of a search request
CriteriaOf(event) ==
    CASE event.type = "StartContinentSearchEvent" ->
            { <<"continent_code", event.continent_code>>, <<"name", event.name>> }
      [] event.type = "StartCountrySearchEvent" ->
            { <<"country_code", event.country_code>>, <<"name", event.name>> }
      [] event.type = "StartRegionSearchEvent" ->
            { <<"region_code", event.region_code>>, <<"local_code", event.local_code>>,
              <<"name", event.name>> }

Blank(v) == v = None \/ \A k \in 1..Len(v) : v[k] = " "

\* w is v without its leading and trailing blanks
IsTrimOf(w, v) ==
    \E i, j \in 1..Len(v) :
        /\ i <= j /\ v[i] # " " /\ v[j] # " "
        /\ \A k \in 1..Len(v) : (k < i \/ k > j) => v[k] = " "
        /\ w = SubSeq(v, i, j)

RowMatches(row, event) ==
    \A c \in CriteriaOf(event) : Blank(c[2]) \/ IsTrimOf(row[c[1]], c[2])

\* C8: a search processed with a connection open, a criterion that is not
\* blank and a store that answers the query yields one SearchResult per row
\* matching all the non-blank trimmed criteria, in store order, and no
\* Error; with no matching row it yields exactly one Error.
C8_SearchResults ==
    \A f \in Frames :
        (/\ f.event \in SearchRequests
         /\ f.pre.connection # NoConnection
         /\ f.fault = "none"
         /\ \E c \in CriteriaOf(f.event) : ~Blank(c[2]))
        => LET t    == TableOf(f.event)
               rows == IF HasTables(f.pre.connection.path) THEN f.pre.txn[t] ELSE <<>>
               M    == { k \in 1..Len(rows) : RowMatches(rows[k], f.event) }
           IN  IF M = {}
               THEN Len(f.out) = 1 /\ f.out[1].type = "ErrorEvent"
               ELSE /\ Len(f.out) = Cardinality(M)
                    /\ \A j \in 1..Len(f.out) :
                          /\ f.out[j].type = "SearchResultEvent"
                          /\ f.out[j].table = t
                          /\ \E k \in M : /\ f.out[j].record = rows[k]
                                           /\ Cardinality({ m \in M : m < k }) = j - 1

\* C8 witness: a continent search by an untrimmed code answered with two
\* results, two rows that share the code.
C8_Witness ==
    \E f \in Frames :
        /\ f.event.type = "StartContinentSearchEvent"
        /\ f.event.continent_code = <<" ", "A", " ">>
        /\ Len(f.out) = 2
        /\ f.out[1].type = "SearchResultEvent" /\ f.out[2].type = "SearchResultEvent"
        /\ f.out[1].record.continent_id # f.out[2].record.continent_id
        /\ f.out[1].record.continent_code = f.out[2].record.continent_code

\* C9 as claimed: a search whose criteria are all absent or blank yields
\* exactly one validation Error and leaves the state as it was.
C9_BlankSearchIsValidationError ==
    \A f \in Frames :
        (/\ f.event \in SearchRequests
         /\ \A c \in CriteriaOf(f.event) : Blank(c[2]))
        => /\ f.out = <<ErrorEvent("no criteria")>>
           /\ JustProcessed(f) => EngineState = f.pre

\* C9 as amended: with a connection held, a search whose criteria are all
\* absent or blank yields exactly one validation Error, whatever the store
\* would answer to a query, and leaves the state as it was.
C9_BlankSearchWhenConnected ==
    \A f \in Frames :
        (/\ f.event \in SearchRequests
         /\ f.pre.connection # NoConnection
         /\ \A c \in CriteriaOf(f.event) : Blank(c[2]))
        => /\ f.out = <<ErrorEvent("no criteria")>>
           /\ JustProcessed(f) => EngineState = f.pre

\* C9 witness: a blank search on a connection whose store would fail the
\* query is answered with the validation Error.
C9_Witness ==
    \E f \in Frames :
        /\ f.event.type = "StartRegionSearchEvent"
        /\ \A c \in CriteriaOf(f.event) : Blank(c[2])
        /\ f.pre.connection # NoConnection
        /\ f.fault = "query"
        /\ f.out = <<ErrorEvent("no criteria")>>

\* C10: a save-new or update request answered with SaveFailed is answered
\* with exactly that one event, and the store is as it was before.
C10_FailedSaveChangesNothing ==
    \A f \in Frames :
        (/\ JustProcessed(f)
         /\ f.event \in SaveRequests
         /\ Count(f.out, "SaveFailedEvent") > 0)
        => /\ Len(f.out) = 1
           /\ txn = f.pre.txn
           /\ disk = f.pre.disk

\* the store answers the statements of the request of frame f: a connection
\* is held, to a file that has the tables, and no store failure strikes
StoreAnswers(f) ==
    /\ f.pre.connection # NoConnection
    /\ HasTables(f.pre.connection.path)
    /\ f.fault = "none"

\* what the engine answers to request event in engine state S, and in the
\* current state, when no store failure strikes
AnswerIn(event, S) == process_event(event, "none", FALSE, S).out

AnswerNow(event) == AnswerIn(event, EngineState)

\* C11: a SaveNewContinent of a record whose id no continent row has,
\* processed on a connection whose store answers, yields exactly Saved(record),
\* and a LoadContinent of that id processed next yields exactly one Loaded
\* event whose continent has the id, code and name of record.
C11_SaveNewThenLoad ==
    \A f \in Frames :
        (/\ JustProcessed(f)
         /\ f.event.type = "SaveNewContinentEvent"
         /\ StoreAnswers(f)
         /\ ~HasId(f.pre.txn.continent, "continent", f.event.record.continent_id))
        => LET rec    == f.event.record
               loaded == AnswerNow([type |-> "LoadContinentEvent",
                                    continent_id |-> rec.continent_id])
           IN  /\ f.out = <<SavedEvent("continent", rec)>>
               /\ Len(loaded) = 1
               /\ loaded[1].type = "LoadedEvent"
               /\ loaded[1].table = "continent"
               /\ loaded[1].record.continent_id = rec.continent_id
               /\ loaded[1].record.continent_code = rec.continent_code
               /\ loaded[1].record.name = rec.name

\* C11 witness: a continent with a new id has just been saved and confirmed.
C11_Witness ==
    \E f \in Frames :
        /\ JustProcessed(f)
        /\ f.event.type = "SaveNewContinentEvent"
        /\ StoreAnswers(f)
        /\ ~HasId(f.pre.txn.continent, "continent", f.event.record.continent_id)
        /\ f.out = <<SavedEvent("continent", f.event.record)>>
        /\ HasId(txn.continent, "continent", f.event.record.continent_id)

\* C12: a Load request processed on a connection whose store answers yields
\* exactly one Loaded event carrying the stored row with the requested id
\* when there is such a row, and no event at all when there is none; no Load
\* request, whatever its outcome, changes the store.
C12_LoadByIdentifier ==
    \A f \in Frames :
        f.event \in LoadRequests
        => LET t    == TableOf(f.event)
               rows == f.pre.txn[t]
               K    == { k \in 1..Len(rows) : rows[k][IdField(t)] = f.event[IdField(t)] }
           IN  /\ (StoreAnswers(f) /\ K # {})
                    => /\ Len(f.out) = 1
                       /\ f.out[1].type = "LoadedEvent"
                       /\ f.out[1].table = t
                       /\ \E k \in K : f.out[1].record = rows[k]
               /\ (StoreAnswers(f) /\ K = {}) => f.out = <<>>
               /\ JustProcessed(f) => (txn = f.pre.txn /\ disk = f.pre.disk)

\* C12 witness: a load of an id that no country row has, on a connection
\* whose store answers, has been answered with no event.
C12_Witness ==
    \E f \in Frames :
        /\ JustProcessed(f)
        /\ f.event.type = "LoadCountryEvent"
        /\ StoreAnswers(f)
        /\ ~HasId(f.pre.txn.country, "country", f.event.country_id)
        /\ f.out = <<>>

\* frame f is a SaveCountry of the record that LoadCountry returned before
\* it, with wikipedia_link replaced by another value and nothing else, on a
\* connection whose store answers
UpdatesLinkOnly(f) ==
    /\ JustProcessed(f)
    /\ f.event.type = "SaveCountryEvent"
    /\ StoreAnswers(f)
    /\ LET before == AnswerIn([type |-> "LoadCountryEvent",
                               country_id |-> f.event.record.country_id], f.pre)
       IN  /\ Len(before) = 1
           /\ before[1].type = "LoadedEvent"
           /\ f.event.record.wikipedia_link # before[1].record.wikipedia_link
           /\ f.event.record =
                 [before[1].record EXCEPT !.wikipedia_link = f.event.record.wikipedia_link]

\* the rows that the update of frame f is not about are as they were
OtherRowsUnchanged(f) ==
    /\ txn.continent = f.pre.txn.continent
    /\ txn.region = f.pre.txn.region
    /\ Len(txn.country) = Len(f.pre.txn.country)
    /\ \A k \in 1..Len(txn.country) :
          f.pre.txn.country[k].country_id # f.event.record.country_id
          => txn.country[k] = f.pre.txn.country[k]

C14_DeliveredAsYielded ==
    [][ /\ \A k \in 1..Len(stack') :
              /\ stack'[k].got = SubSeq(stack'[k].out, 1, stack'[k].idx)
              /\ Len(stack'[k].log) = IF busDebug' THEN 1 + stack'[k].idx ELSE 0
        /\ (Len(stack') = Len(stack) - 1 /\ raised' = raised /\ nreq' = nreq)
              => Top.got = Top.out ]_vars

\* C14 witness: in debug mode, two responses to one request have been
\* printed and handed to the view.
C14_Witness ==
    /\ busDebug
    /\ stack # <<>>
    /\ Len(Top.out) = 2
    /\ Top.got = Top.out
    /\ Len(Top.log) = 3

\* C15: a request whose kind is not a key of the dispatch table is answered
\* with exactly one generic Error, and the connection held (or its absence),
\* the live connections and the store content are as they were, whatever
\* the state of the engine.
C15_UnrecognizedRequest ==
    \A f \in Frames :
        f.event.type \notin HandledTypes
        => /\ Len(f.out) = 1
           /\ f.out[1].type = "ErrorEvent"
           /\ JustProcessed(f) => EngineState = f.pre

\* C15 witness: an unrecognized request has been answered with the Error
\* on an engine that holds a connection.
C15_Witness ==
    \E f \in Frames :
        /\ JustProcessed(f)
        /\ f.event.type \notin HandledTypes
        /\ f.pre.connection # NoConnection
        /\ f.out = <<ErrorEvent("unrecognized")>>

\* C16: a Close request never fails and is answered with exactly one Closed:
\* with no connection held nothing is released and the engine stays
\* disconnected; with a connection held that connection is released and the
\* engine is disconnected afterwards; a Close that follows a Close is
\* answered with Closed as well.
C16_CloseAlwaysCloses ==
    /\ raisedBy = "CloseDatabaseEvent" => raised # "sqlite3.Error"
    /\ \A f \in Frames :
          f.event.type = "CloseDatabaseEvent"
          => /\ f.out = <<[type |-> "DatabaseClosedEvent"]>>
             /\ JustProcessed(f)
                  => /\ connection = NoConnection
                     /\ f.pre.connection \notin live
                     /\ f.pre.connection = NoConnection => EngineState = f.pre
                     /\ AnswerNow([type |-> "CloseDatabaseEvent"])
                           = <<[type |-> "DatabaseClosedEvent"]>>

\* the most responses a request may be answered with: one, or as many as
\* the searched table has rows
MostResponses(f) ==
    IF f.event \in SearchRequests /\ Len(f.pre.txn[TableOf(f.event)]) > 1
    THEN Len(f.pre.txn[TableOf(f.event)])
    ELSE 1

\* C17: every request is answered with a finite sequence of responses, no
\* longer than max(1, number of rows of the searched table), and with
\* exactly one response when it is an Open, Close, Quit or unrecognized
\* request; no such request ends without its response.
C17_BoundedResponses ==
    /\ \A f \in Frames :
          /\ Len(f.out) <= MostResponses(f)
          /\ (f.event.type \in {"OpenDatabaseEvent", "CloseDatabaseEvent", "QuitInitiatedEvent"}
              \/ f.event.type \notin HandledTypes)
                => Len(f.out) = 1
    /\ raised = "sqlite3.Error" => raisedBy \notin {"OpenDatabaseEvent", "CloseDatabaseEvent"}

\* C18: a request that is neither Open nor Close (Quit, a search, a load, a
\* save-new, an update, an unrecognized request) leaves the connection held
\* by the engine, or its absence, and the live connections exactly as they
\* were, whatever the request is answered with.
C18_OnlyOpenAndCloseConnect ==
    \A f \in Frames :
        (/\ JustProcessed(f)
         /\ f.event.type \notin {"OpenDatabaseEvent", "CloseDatabaseEvent"})
        => /\ connection = f.pre.connection
           /\ live = f.pre.live

\* C18 witness: a save that failed on a store failure has left the engine
\* connected to the store it was connected to.
C18_Witness ==
    \E f \in Frames :
        /\ JustProcessed(f)
        /\ f.event \in SaveRequests
        /\ f.fault # "none"
        /\ f.out = <<SaveFailedEvent(TableOf(f.event))>>
        /\ f.pre.connection # NoConnection
        /\ connection = f.pre.connection
        /\ connection \in live

\* C19: a search request processed while the engine holds no connection is
\* answered with no event at all, whatever its criteria, blank ones
\* included, and changes nothing.
C19_SearchWithoutConnection ==
    \A f \in Frames :
        (/\ f.event \in SearchRequests
         /\ f.pre.connection = NoConnection)
        => /\ f.out = <<>>
           /\ JustProcessed(f) => EngineState = f.pre

\* C19 witness: a continent search with blank criteria has been processed
\* with no connection held and answered with nothing.
C19_Witness ==
    \E f \in Frames :
        /\ JustProcessed(f)
        /\ f.event.type = "StartContinentSearchEvent"
        /\ \A c \in CriteriaOf(f.event) : Blank(c[2])
        /\ f.pre.connection = NoConnection
        /\ f.out = <<>>

\* C20: every Open request is answered with exactly one response, and the
\* response agrees with the state the request leaves: it is Opened, with
\* the requested path, exactly when the engine then holds a live connection
\* to that path, and it is OpenFailed exactly when the engine then holds no
\* connection.
C20_OpenAnswerAgreesWithState ==
    /\ raisedBy = "OpenDatabaseEvent" => raised # "sqlite3.Error"
    /\ \A f \in Frames :
          f.event.type = "OpenDatabaseEvent"
          => /\ Len(f.out) = 1
             /\ f.out[1].type = "DatabaseOpenedEvent" => f.out[1].path = f.event.path
             /\ JustProcessed(f)
                  => /\ f.out[1].type = "DatabaseOpenedEvent"
                          <=> (connection \in live /\ connection.path = f.event.path)
                     /\ f.out[1].type = "DatabaseOpenFailedEvent"
                          <=> connection = NoConnection

\* the ids of the rows of a table
IdsOf(rows, t) == { rows[k][IdField(t)] : k \in 1..Len(rows) }

\* C21: an update request (SaveContinent, SaveCountry, SaveRegion) changes
\* the id of no row and adds or removes no row: each table has the same
\* number of rows and the same set of ids after the request as before it,
\* in what the engine's connection reads and in the store file, also when
\* the id of the request matches no row.
C21_UpdateKeepsIds ==
    \A f \in Frames :
        (JustProcessed(f) /\ f.event.type \in UpdateTypes)
        => \A t \in {"continent", "country", "region"} :
              /\ Len(txn[t]) = Len(f.pre.txn[t])
              /\ IdsOf(txn[t], t) = IdsOf(f.pre.txn[t], t)
              /\ Len(disk[t]) = Len(f.pre.disk[t])
              /\ IdsOf(disk[t], t) = IdsOf(f.pre.disk[t], t)

\* frame f is a save-new or an update of a country or a region that has just
\* been confirmed by Saved(record)
ConfirmedSave(f) ==
    /\ JustProcessed(f)
    /\ f.event \in SaveRequests
    /\ TableOf(f.event) \in {"country", "region"}
    /\ f.out = <<SavedEvent(TableOf(f.event), f.event.record)>>

\* the Load request for the row that the save request event is about
LoadOf(event) ==
    CASE TableOf(event) = "country" ->
            [type |-> "LoadCountryEvent", country_id |-> event.record.country_id]
      [] TableOf(event) = "region" ->
            [type |-> "LoadRegionEvent", region_id |-> event.record.region_id]

\* the update request that carries the record of the save request event
UpdateOf(event) ==
    [type |-> IF TableOf(event) = "country" THEN "SaveCountryEvent" ELSE "SaveRegionEvent",
     record |-> event.record]

\* C22: a country or region record confirmed by Saved(record), on the
\* save-new path or the update path, and loaded by id next is returned
\* equal to record in every field, empty keywords and wikipedia_link
\* included; and an update with the same record stores what the save-new
\* stored, so that the load after it returns the same record.
C22_SavedIsLoaded ==
    \A f \in Frames :
        (ConfirmedSave(f)
         /\ HasId(txn[TableOf(f.event)], TableOf(f.event),
                  f.event.record[IdField(TableOf(f.event))]))
        => LET t       == TableOf(f.event)
               loaded  == AnswerNow(LoadOf(f.event))
               updated == process_event(UpdateOf(f.event), "none", FALSE, EngineState).S
           IN  /\ loaded = <<LoadedEvent(t, f.event.record)>>
               /\ AnswerIn(LoadOf(f.event), updated) = loaded

====
